---------------------------- MODULE Spec2Model ----------------------------
(***************************************************************************)
(* OptionPricerPro: a Django application that prices European options on   *)
(* energy futures with the Black-76 formula.                               *)
(*                                                                         *)
(*   calculator/models.py  Option.calculate_oil_expiry,                    *)
(*                         Option.calculate_gas_expiry,                    *)
(*                         Option.time_to_expiration,                      *)
(*                         Option.calculate_option_price                   *)
(*   calculator/views.py   index (the pricing request), refresh_data (the  *)
(*                         quote ingestion)                                *)
(*   calculator/signals.py post_save receiver of MarketData                *)
(*                                                                         *)
(* Dates are day numbers counted from 1970-01-01 (day 0, a Thursday).      *)
(* Timestamps are counted in ticks, TicksPerDay ticks to the day, so that  *)
(* the time of day of pd.Timestamp.now() is part of the model.  Prices are *)
(* DecimalField(decimal_places=2) values, held as whole numbers of cents.  *)
(***************************************************************************)
EXTENDS Integers, Sequences, FiniteSets, Bags, TLC

VARIABLES
    now,                \* the wall clock read by pd.Timestamp.now(), in ticks
    marketData,         \* the MarketData table, a bag of rows
    productNames,       \* the ProductName table, the set of its names
    deliveryMonths,     \* the DeliveryMonth table, the set of its months
    pc,                 \* index: the position of the pricing request
    option,             \* index: the Option saved from the form
    exc,                \* index: the exception raised by the request
    message,            \* index: the message shown by messages.error
    option_price,       \* index: the local option_price
    time_to_expiration_shown, \* index: the local time_to_expiration
    result              \* the value returned by a method applied on its own

vars == <<now, marketData, productNames, deliveryMonths, pc,
          option, exc, message, option_price, time_to_expiration_shown, result>>

---------------------------------------------------------------------------
(* Bounds of the model.                                                    *)

MaxYear == 2026
TicksPerDay == 2
MaxTicks == 2
MaxQuotes == 2
MaxRows == 1

---------------------------------------------------------------------------
(* The proleptic Gregorian calendar of datetime.date / pd.Timestamp.       *)

Monday == 0
Thursday == 3
Saturday == 5
Sunday == 6

IsLeap(y) == (y % 4 = 0 /\ y % 100 # 0) \/ y % 400 = 0

DaysInMonth(y, m) ==
    IF m = 2 THEN (IF IsLeap(y) THEN 29 ELSE 28)
    ELSE IF m \in {4, 6, 9, 11} THEN 30 ELSE 31

\* The days before 1 March of year yy, counted from 1 March of year 0.
DaysBeforeMarch(yy) == 365 * yy + yy \div 4 - yy \div 100 + yy \div 400

\* The days from 1 March to the 1st of the month mp months after March.
DaysBeforeMonth(mp) == (153 * mp + 2) \div 5

\* The day number of year y, month m, day d (years count from March).
Date(y, m, d) ==
    DaysBeforeMarch(IF m <= 2 THEN y - 1 ELSE y)
        + DaysBeforeMonth(IF m > 2 THEN m - 3 ELSE m + 9) + d - 1 - 719468

CivilOfMonth(y, doy, mp) ==
    [year  |-> IF mp < 10 THEN y ELSE y + 1,
     month |-> IF mp < 10 THEN mp + 3 ELSE mp - 9,
     day   |-> doy - DaysBeforeMonth(mp) + 1]

CivilOfDayOfYear(y, doy) == CivilOfMonth(y, doy, (5 * doy + 2) \div 153)

CivilOfYear(era, doe, yoe) ==
    CivilOfDayOfYear(yoe + era * 400,
                     doe - (365 * yoe + yoe \div 4 - yoe \div 100))

CivilOfEra(era, doe) ==
    CivilOfYear(era, doe,
        (doe - doe \div 1460 + doe \div 36524 - doe \div 146096) \div 365)

\* The [year, month, day] of a day number.
Civil(z) == CivilOfEra((z + 719468) \div 146097, (z + 719468) % 146097)

\* date.weekday(): Monday is 0, Sunday is 6.
Weekday(z) == (z + Thursday) % 7

\* date + relativedelta(months=n): the day is clipped to the month's length.
DateClipped(y, m, d, last) == Date(y, m, IF d > last THEN last ELSE d)

DateOfMonthIndex(idx, d) ==
    DateClipped(idx \div 12, (idx % 12) + 1, d,
                DaysInMonth(idx \div 12, (idx % 12) + 1))

AddMonthsCivil(c, n) == DateOfMonthIndex(c.year * 12 + (c.month - 1) + n, c.day)

AddMonths(z, n) == AddMonthsCivil(Civil(z), n)

ReplaceDayCivil(c, d) == Date(c.year, c.month, d)

\* date.replace(day=d)
ReplaceDay(z, d) == ReplaceDayCivil(Civil(z), d)

---------------------------------------------------------------------------
(* USFederalHolidayCalendar and CustomBusinessDay (pandas).                *)

\* observance=nearest_workday: Saturday is observed on Friday, Sunday on Monday.
nearest_workday(z) ==
    IF Weekday(z) = Saturday THEN z - 1
    ELSE IF Weekday(z) = Sunday THEN z + 1
    ELSE z

\* Holiday(month=m, day=1, offset=DateOffset(weekday=WD(n))): the n-th given
\* weekday on or after the 1st of the month.
NthWeekdayFrom(first, wd, n) ==
    first + ((wd - Weekday(first)) % 7) + 7 * (n - 1)

NthWeekday(y, m, wd, n) == NthWeekdayFrom(Date(y, m, 1), wd, n)

\* Holiday(month=m, day=last, offset=DateOffset(weekday=WD(-1))): the last given
\* weekday on or before the month's last day.
LastWeekdayTo(last, wd) == last - ((Weekday(last) - wd) % 7)

LastWeekday(y, m, wd) == LastWeekdayTo(Date(y, m, DaysInMonth(y, m)), wd)

\* USFederalHolidayCalendar.rules, for the holidays dated in year y.
HolidaysOfYear(y) ==
    {nearest_workday(Date(y, 1, 1)),                 \* New Year's Day
     NthWeekday(y, 2, Monday, 3),                     \* Washington's Birthday
     LastWeekday(y, 5, Monday),                       \* Memorial Day
     nearest_workday(Date(y, 7, 4)),                  \* Independence Day
     NthWeekday(y, 9, Monday, 1),                     \* Labor Day
     NthWeekday(y, 10, Monday, 2),                    \* Columbus Day
     nearest_workday(Date(y, 11, 11)),                \* Veterans Day
     NthWeekday(y, 11, Thursday, 4),                  \* Thanksgiving Day
     nearest_workday(Date(y, 12, 25))}                \* Christmas Day
    \cup (IF y >= 1986 THEN {NthWeekday(y, 1, Monday, 3)} ELSE {})  \* M. L. King
    \cup (IF y >= 2021 THEN {nearest_workday(Date(y, 6, 19))} ELSE {}) \* Juneteenth

\* calendar.holidays(): the holidays from start_date 1970-01-01 to end_date
\* 2200-12-31, computed once when us_bd is constructed.
Holidays ==
    {z \in UNION {HolidaysOfYear(y) : y \in 1970..2201} :
        Date(1970, 1, 1) <= z /\ z <= Date(2200, 12, 31)}

IsHoliday(z) == z \in Holidays

\* A day CustomBusinessDay(calendar=USFederalHolidayCalendar()) counts.
IsBusinessDay(z) == Weekday(z) < Saturday /\ ~IsHoliday(z)

RECURSIVE RollForward(_)
\* np.busday_offset(..., roll="forward"): the first business day on or after z.
RollForward(z) == IF IsBusinessDay(z) THEN z ELSE RollForward(z + 1)

RECURSIVE RollBackward(_)
\* np.busday_offset(..., roll="backward"): the last business day on or before z.
RollBackward(z) == IF IsBusinessDay(z) THEN z ELSE RollBackward(z - 1)

RECURSIVE BusdayBack(_, _)
\* From business day z, n business days back.
BusdayBack(z, n) == IF n = 0 THEN z ELSE BusdayBack(RollBackward(z - 1), n - 1)

\* A (buggy) variant that rolls a non-business day backward first.
SubBusinessDaysRollBackward(z, n) == BusdayBack(RollBackward(z), n)

\* date - n * us_bd.  CustomBusinessDay with a negative count rolls a
\* non-business day forward, then steps n business days back.
SubBusinessDays(z, n) == BusdayBack(RollForward(z), n)

---------------------------------------------------------------------------
(* calculator/models.py: class Option.                                     *)

CrudeOil == "Crude Oil"
NaturalGas == "Natural Gas"
HeatingOil == "Heating Oil"

expiry_day == 25
BusinessDaysBefore == 3

\* A (buggy) variant with no wrap-around from January to December.
oil_target_no_wrap(c) ==
    Date(c.year, IF c.month = 1 THEN 12 ELSE c.month - 1, expiry_day)

oil_target_date_no_wrap(delivery_month) ==
    oil_target_no_wrap(Civil(delivery_month))

\* Lines 111-121: expiry_year, expiry_month and target_date.
oil_target(c) ==
    Date(IF c.month = 1 THEN c.year - 1 ELSE c.year,
         IF c.month = 1 THEN 12 ELSE c.month - 1,
         expiry_day)

\* calculate_oil_expiry: target_date, the 25th of the month before delivery.
oil_target_date(delivery_month) == oil_target(Civil(delivery_month))

calculate_oil_expiry(delivery_month) ==
    SubBusinessDays(oil_target_date(delivery_month), BusinessDaysBefore)

\* A (buggy) variant that takes the month before delivery, as the oil rule does.
gas_target_date_preceding_month(delivery_month) ==
    ReplaceDay(AddMonths(delivery_month, -1), 1)

\* calculate_gas_expiry: target_date, the 1st of the delivery month.
gas_target_date(delivery_month) == ReplaceDay(delivery_month, 1)

calculate_gas_expiry(delivery_month) ==
    SubBusinessDays(gas_target_date(delivery_month), BusinessDaysBefore)

---------------------------------------------------------------------------
(* Values returned and exceptions raised.                                  *)

ValueError == "ValueError"
ZeroDivisionError == "ZeroDivisionError"
UnboundLocalError == "UnboundLocalError"

NoMarketDataMsg == "No market data found for this option"
UnknownFutureMsg == "Unknown underlying future"
TimeToExpirationMsg == "Time to expiration must be positive and non-zero"
UnknownOptionTypeMsg == "Unknown option type"
MathDomainMsg == "math domain error"
DivisionByZeroMsg == "float division by zero"

None == [none |-> TRUE]
Return(v) == [kind |-> "return", exc |-> "", msg |-> "", value |-> v]
Raise(e, m) == [kind |-> "raise", exc |-> e, msg |-> m, value |-> None]

\* The timestamp of midnight of a date: pd.Timestamp(year=, month=, day=).
Timestamp(z) == z * TicksPerDay

DaysPerYear == 365
RiskFreeRatePct == 5
VolatilityPct == 20

\* delta.days / 365.0, held as the fraction numerator / denominator.
YearFraction(days) == [numerator |-> days, denominator |-> DaysPerYear]

\* A (buggy) variant that rounds the time of day up to a whole day.
TimedeltaDaysCeil(ticks) == -((-ticks) \div TicksPerDay)

\* Timedelta.days: whole days, rounded toward minus infinity.
TimedeltaDays(ticks) == ticks \div TicksPerDay

\* Option.time_to_expiration, lines 149-158: the expiry rule of the future.
expiry_date(opt) ==
    IF opt.underlying_future = CrudeOil
    THEN Return(calculate_oil_expiry(opt.delivery_month))
    ELSE IF opt.underlying_future = NaturalGas
    THEN Return(calculate_gas_expiry(opt.delivery_month))
    ELSE Raise(ValueError, UnknownFutureMsg)

\* Option.time_to_expiration, with the reading of the clock made explicit.
\* Lines 162-168: the year fraction of the days left, if positive.
years_of_days(days) ==
    IF days <= 0
    THEN Raise(ValueError, TimeToExpirationMsg)
    ELSE Return(YearFraction(days))

\* Lines 160-168, for the expiry date found.
time_to(expiry, clock) ==
    IF expiry.kind = "raise" THEN expiry
    ELSE years_of_days(TimedeltaDays(Timestamp(expiry.value) - clock))

time_to_expiration(opt, clock) == time_to(expiry_date(opt), clock)

\* Lines 193-203: the Black-76 formula.  The price is a real number that is
\* a function of exactly (option_type, F, K, T, r, sigma); it is held as that
\* tuple of arguments.  What the floating-point evaluation raises is decided
\* by the signs: F / K raises ZeroDivisionError for K = 0, math.log raises
\* ValueError for F / K <= 0, and sigma * math.sqrt(T) is positive.
black76(option_type, F, K, T) ==
    IF K = 0 THEN Raise(ZeroDivisionError, DivisionByZeroMsg)
    ELSE IF (F <= 0 /\ K > 0) \/ (F >= 0 /\ K < 0)
    THEN Raise(ValueError, MathDomainMsg)
    ELSE IF option_type \in {"CALL", "PUT"}
    THEN Return([option_type |-> option_type, F |-> F, K |-> K, T |-> T,
                 r |-> RiskFreeRatePct, sigma |-> VolatilityPct])
    ELSE Raise(ValueError, UnknownOptionTypeMsg)

\* The rows of MarketData.objects.filter(product_name=, delivery_month=).
filter(store, opt) ==
    {q \in BagToSet(store) :
        /\ q.product_name = opt.underlying_future
        /\ q.delivery_month = opt.delivery_month}

\* A (buggy) variant ordered by settlement_date ascending.
first_order_by_asc(rows) ==
    {q \in rows : \A p \in rows : q.settlement_date <= p.settlement_date}

\* .order_by('-settlement_date').first(): a row with no later row; among
\* rows of one settlement date the database returns any.
first_order_by_desc(rows) ==
    {q \in rows : \A p \in rows : p.settlement_date <= q.settlement_date}

\* Lines 181-203, for the quote found and the time to expiration read.
price_at(opt, market_data, T) ==
    IF T.kind = "raise" THEN T
    ELSE black76(opt.option_type, market_data.futures_price,
                 opt.strike_price, T.value)

\* Lines 176-203, for the rows the filter found: every possible outcome.
price_of(opt, rows, T) ==
    IF rows = {}
    THEN {Raise(ValueError, NoMarketDataMsg)}
    ELSE {price_at(opt, q, T) : q \in first_order_by_desc(rows)}

\* A (buggy) variant that reads the time to expiration before the lookup.
price_of_time_first(opt, rows, T) ==
    IF T.kind = "raise" THEN {T} ELSE price_of(opt, rows, T)

calculate_option_price_time_first(opt, store, clock) ==
    price_of_time_first(opt, filter(store, opt), time_to_expiration(opt, clock))

\* Option.calculate_option_price: the set of its possible outcomes.
calculate_option_price(opt, store, clock) ==
    price_of(opt, filter(store, opt), time_to_expiration(opt, clock))

---------------------------------------------------------------------------
(* calculator/views.py: refresh_data, with calculator/signals.py.          *)

FutureContract1 == "Future Contract 1"
FutureContract2 == "Future Contract 2"
RollDay == 25
MonthsAhead == 2
MonthsAfterRoll == 3
RollBackDays == 3

RECURSIVE StepBackToBusinessDay(_)
\* Lines 100-101: while the target is no business day, one business day back.
StepBackToBusinessDay(z) ==
    IF IsBusinessDay(z) THEN z ELSE StepBackToBusinessDay(SubBusinessDays(z, 1))

\* Lines 98-99: a target that is no business day moves 3 business days back.
shift_target(target) ==
    IF IsBusinessDay(target) THEN target
    ELSE SubBusinessDays(target, RollBackDays)

\* Lines 96-102: a date on or after the 25th rolls to a later month.
roll_month(ahead) ==
    IF Civil(ahead).day >= RollDay
    THEN AddMonths(StepBackToBusinessDay(shift_target(ReplaceDay(ahead, RollDay))),
                   MonthsAfterRoll)
    ELSE ahead

\* Lines 94-103: the delivery month of a 'Future Contract 1' row.
contract1_delivery_month(settlement_date) ==
    ReplaceDay(roll_month(AddMonths(settlement_date, MonthsAhead)), 1)

RECURSIVE parse_rows(_, _, _)

\* Lines 105-110: the row is appended with the delivery_month now bound.
append_row(row, rest, dm, market_data) ==
    IF dm = << >>
    THEN Raise(UnboundLocalError, "delivery_month")
    ELSE parse_rows(rest, dm,
             Append(market_data,
                    [settlement_date |-> row.period,
                     product_name    |-> row.product_name,
                     delivery_month  |-> dm[1],
                     futures_price   |-> row.value]))

\* Lines 87-103: delivery_month is a local that only a 'Future Contract 1'
\* row assigns: <<>> while unbound, otherwise what the last such row left.
parse_row(row, rest, delivery_month, market_data) ==
    append_row(row, rest,
               IF row.process_name = FutureContract1
               THEN <<contract1_delivery_month(row.period)>>
               ELSE delivery_month,
               market_data)

\* Lines 83-110: the market_data list of the API rows.
parse_rows(rows, delivery_month, market_data) ==
    IF rows = << >> THEN Return(market_data)
    ELSE parse_row(Head(rows), Tail(rows), delivery_month, market_data)

RECURSIVE SeqToBag(_)
SeqToBag(rows) ==
    IF rows = << >> THEN EmptyBag
    ELSE SetToBag({Head(rows)}) (+) SeqToBag(Tail(rows))

SeqRange(rows) == {rows[i] : i \in 1..Len(rows)}

\* The rows the API answers with.
Periods == {Date(2025, 1, 10), Date(2025, 1, 13), Date(2025, 1, 27)}
ApiProducts == {CrudeOil, HeatingOil}
ApiValues == {-8000, 8000}
ApiRows ==
    [period : Periods, product_name : ApiProducts,
     process_name : {FutureContract1, FutureContract2}, value : ApiValues]
Batches(n) == [1..n -> ApiRows]

\* refresh_data, a POST request: lines 58-127.  An exception while parsing
\* ends the request before anything is saved.  Saving a row (lines 115-121)
\* also runs the post_save receiver of signals.py.
RefreshData ==
    \E n \in 1..MaxRows :
      /\ BagCardinality(marketData) + n <= MaxQuotes
      /\ \E batch \in Batches(n) :
          \E parsed \in {parse_rows(batch, << >>, << >>)} :
            /\ parsed.kind = "return"
            /\ marketData' = marketData (+) SeqToBag(parsed.value)
            /\ deliveryMonths' = deliveryMonths \cup
                   {q.delivery_month : q \in SeqRange(parsed.value)}
            /\ productNames' = productNames \cup
                   {q.product_name : q \in SeqRange(parsed.value)}
            /\ UNCHANGED <<now, pc, option, exc, message, option_price,
                           time_to_expiration_shown, result>>

---------------------------------------------------------------------------
(* calculator/views.py: index, a POST request.  Each call that reads the   *)
(* clock or the MarketData table is a step of its own.                     *)

TimeToExpiryFlash == "Time to expiry must be positive and non-zero."

\* The values the form is submitted with.
FormStrikes == {-8000, 0, 8000}
OPTION_TYPE_CHOICES == {"CALL", "PUT"}

\* Lines 20-26: OptionForm.is_valid() and form.save().
IndexSubmit ==
    /\ pc = "idle"
    /\ \E t \in OPTION_TYPE_CHOICES, u \in productNames,
          d \in deliveryMonths, k \in FormStrikes :
           option' = [option_type |-> t, underlying_future |-> u,
                      delivery_month |-> d, strike_price |-> k]
    /\ pc' = "try"
    /\ UNCHANGED <<now, marketData, productNames, deliveryMonths, exc, message,
                   option_price, time_to_expiration_shown, result>>

\* Lines 27-31: the first calculate_option_price(), inside try.
IndexTry ==
    /\ pc = "try"
    /\ \E out \in calculate_option_price(option, marketData, now) :
           IF out.kind = "return"
           THEN /\ pc' = "price"
                /\ option_price' = out.value
                /\ UNCHANGED <<exc, message>>
           ELSE IF out.exc = ValueError
           THEN /\ pc' = "error"
                /\ exc' = out
                /\ message' = TimeToExpiryFlash
                /\ UNCHANGED option_price
           ELSE /\ pc' = "crash"
                /\ exc' = out
                /\ UNCHANGED <<message, option_price>>
    /\ UNCHANGED <<now, marketData, productNames, deliveryMonths, option,
                   time_to_expiration_shown, result>>

\* Line 33: the second calculate_option_price(), outside try.
IndexPrice ==
    /\ pc = "price"
    /\ \E out \in calculate_option_price(option, marketData, now) :
           IF out.kind = "return"
           THEN /\ pc' = "time"
                /\ option_price' = out.value
                /\ UNCHANGED exc
           ELSE /\ pc' = "crash"
                /\ exc' = out
                /\ UNCHANGED option_price
    /\ UNCHANGED <<now, marketData, productNames, deliveryMonths, option,
                   message, time_to_expiration_shown, result>>

\* Lines 34-44: option.time_to_expiration, then the page is rendered.
IndexTimeToExpiration ==
    /\ pc = "time"
    /\ \E out \in {time_to_expiration(option, now)} :
           IF out.kind = "return"
           THEN /\ pc' = "rendered"
                /\ time_to_expiration_shown' = out.value
                /\ UNCHANGED exc
           ELSE /\ pc' = "crash"
                /\ exc' = out
                /\ UNCHANGED time_to_expiration_shown
    /\ UNCHANGED <<now, marketData, productNames, deliveryMonths, option,
                   message, option_price, result>>

\* The wall clock: the request arrives on 2025-02-18, one tick after midnight,
\* and time passes.
StartNow == Timestamp(Date(2025, 2, 18)) + 1

Tick ==
    /\ now < StartNow + MaxTicks
    /\ now' = now + 1
    /\ UNCHANGED <<marketData, productNames, deliveryMonths, pc, option, exc,
                   message, option_price, time_to_expiration_shown, result>>

Init ==
    /\ now = StartNow
    /\ marketData = EmptyBag
    /\ productNames = {}
    /\ deliveryMonths = {}
    /\ pc = "idle"
    /\ option = None
    /\ exc = None
    /\ message = ""
    /\ option_price = None
    /\ time_to_expiration_shown = None
    /\ result = None

Next ==
    \/ RefreshData
    \/ IndexSubmit
    \/ IndexTry
    \/ IndexPrice
    \/ IndexTimeToExpiration
    \/ Tick

Spec == Init /\ [][Next]_vars

---------------------------------------------------------------------------
(* The methods of Option applied on their own, to inputs drawn in the      *)
(* initial state.                                                          *)

Idle ==
    /\ marketData = EmptyBag
    /\ productNames = {}
    /\ deliveryMonths = {}
    /\ pc = "idle"
    /\ exc = None
    /\ message = ""
    /\ option_price = None
    /\ time_to_expiration_shown = None
    /\ result = None

\* DeliveryMonth.month is a DateField: any day of the month can be stored.
DeliveryMonthDates ==
    {Date(y, m, d) : y \in 2024..MaxYear, m \in 1..12, d \in {1, 15}}

InitExpiry ==
    /\ Idle
    /\ now = StartNow
    /\ option \in [option_type : {"CALL"},
                   underlying_future : {CrudeOil, NaturalGas, HeatingOil},
                   delivery_month : DeliveryMonthDates,
                   strike_price : {8000}]

\* The expiry rule of the option's future is evaluated.
ApplyExpiry ==
    /\ result = None
    /\ result' = expiry_date(option)
    /\ UNCHANGED <<now, marketData, productNames, deliveryMonths, pc, option,
                   exc, message, option_price, time_to_expiration_shown>>

SpecExpiry == InitExpiry /\ [][ApplyExpiry]_vars

\* The clock readings around the expiry dates of the March 2025 contracts.
ClockReadings ==
    Timestamp(Date(2025, 2, 17)) .. Timestamp(Date(2025, 2, 28))

InitTime ==
    /\ Idle
    /\ now \in ClockReadings
    /\ option \in [option_type : {"CALL"},
                   underlying_future : {CrudeOil, NaturalGas, HeatingOil},
                   delivery_month : {Date(2025, 3, 1), Date(2025, 4, 1)},
                   strike_price : {8000}]

\* Option.time_to_expiration is read.
ApplyTimeToExpiration ==
    /\ result = None
    /\ result' = time_to_expiration(option, now)
    /\ UNCHANGED <<now, marketData, productNames, deliveryMonths, pc, option,
                   exc, message, option_price, time_to_expiration_shown>>

SpecTime == InitTime /\ [][ApplyTimeToExpiration]_vars

---------------------------------------------------------------------------
(* The expiry policy.                                                      *)

IsTradingDay(z) == Weekday(z) \notin {Saturday, Sunday} /\ ~IsHoliday(z)

RECURSIVE WalkBack(_, _)
\* n trading days before z, walking one calendar day at a time from z itself.
WalkBack(z, n) ==
    IF n = 0 THEN z
    ELSE IF IsTradingDay(z - 1) THEN WalkBack(z - 1, n - 1)
    ELSE WalkBack(z - 1, n)

\* The target date of the exchange rule, by month arithmetic.
TargetDate(opt) ==
    LET c == Civil(opt.delivery_month)
        preceding == c.year * 12 + (c.month - 1) - 1
    IN  IF opt.underlying_future = CrudeOil
        THEN Date(preceding \div 12, (preceding % 12) + 1, 25)
        ELSE Date(c.year, c.month, 1)

Supported(opt) == opt.underlying_future \in {CrudeOil, NaturalGas}

\* C1: for every delivery month and for Crude Oil and Natural Gas, the expiry
\* is the target date moved 3 business days back, weekends and holidays
\* skipped, where the target is the 25th of the month before the delivery
\* month for Crude Oil (December of the year before for a January delivery)
\* and the 1st of the delivery month for Natural Gas; the target need not be
\* a trading day.
C1_ExpiryIsThreeBusinessDaysBeforeTarget ==
    (result # None /\ Supported(option)) =>
        result = Return(WalkBack(TargetDate(option), 3))

\* A January Crude Oil contract whose target, 25 December, is no trading day.
C1_Witness ==
    /\ result # None
    /\ option.underlying_future = CrudeOil
    /\ Civil(option.delivery_month).month = 1
    /\ ~IsTradingDay(TargetDate(option))
    /\ result.kind = "return"

IsOilJanuary2025 ==
    /\ option.underlying_future = CrudeOil
    /\ Civil(option.delivery_month).year = 2025
    /\ Civil(option.delivery_month).month = 1

\* C7 as stated: Crude Oil for January 2025 expires on 2024-12-23.
C7_AsStated ==
    (result # None /\ IsOilJanuary2025) =>
        /\ oil_target_date(option.delivery_month) = Date(2024, 12, 25)
        /\ result = Return(Date(2024, 12, 23))

\* C7: Crude Oil for January 2025 takes December 2024 as the preceding month
\* and 2024-12-25 as the target date, and expires on 2024-12-20, the third
\* business day before it (24, 23 and 20 December being the business days).
C7_OilJanuary2025 ==
    (result # None /\ IsOilJanuary2025) =>
        /\ oil_target_date(option.delivery_month) = Date(2024, 12, 25)
        /\ result = Return(Date(2024, 12, 20))
        /\ {z \in Date(2024, 12, 20)..Date(2024, 12, 24) : IsBusinessDay(z)}
               = {Date(2024, 12, 20), Date(2024, 12, 23), Date(2024, 12, 24)}

C7_Witness == result # None /\ IsOilJanuary2025 /\ result.kind = "return"

IsGasMarch2025 ==
    /\ option.underlying_future = NaturalGas
    /\ Civil(option.delivery_month).year = 2025
    /\ Civil(option.delivery_month).month = 3

\* C8 as stated: Natural Gas for March 2025 expires on Tuesday 2025-02-25.
C8_AsStated ==
    (result # None /\ IsGasMarch2025) =>
        /\ gas_target_date(option.delivery_month) = Date(2025, 3, 1)
        /\ result = Return(Date(2025, 2, 25))

\* C8: Natural Gas for March 2025 takes 2025-03-01 as the target date and
\* expires on 2025-02-26, a Wednesday, the third business day before it
\* (28, 27 and 26 February being the business days).
C8_GasMarch2025 ==
    (result # None /\ IsGasMarch2025) =>
        /\ gas_target_date(option.delivery_month) = Date(2025, 3, 1)
        /\ result = Return(Date(2025, 2, 26))
        /\ Weekday(Date(2025, 2, 26)) = 2
        /\ {z \in Date(2025, 2, 26)..Date(2025, 3, 1) : IsBusinessDay(z)}
               = {Date(2025, 2, 26), Date(2025, 2, 27), Date(2025, 2, 28)}

C8_Witness == result # None /\ IsGasMarch2025 /\ result.kind = "return"

---------------------------------------------------------------------------
(* The time to expiration.                                                 *)

\* The time from the clock reading to midnight of the expiry date, in ticks.
TimeLeft == Timestamp(expiry_date(option).value) - now

\* C2: the time to expiration is the number of whole days from now to the
\* expiry, over 365, when that is positive, and the call fails when it is
\* not: an expiry equal to now fails, and an expiry one day after now gives
\* 1/365.
C2_TimeToExpiration ==
    (result # None /\ Supported(option)) =>
        /\ TimeLeft < TicksPerDay =>
               result = Raise(ValueError, TimeToExpirationMsg)
        /\ TimeLeft >= TicksPerDay =>
               /\ result.kind = "return"
               /\ result.value.denominator = 365
               /\ result.value.numerator * TicksPerDay <= TimeLeft
               /\ TimeLeft < (result.value.numerator + 1) * TicksPerDay
        /\ TimeLeft = 0 => result.kind = "raise"
        /\ TimeLeft = TicksPerDay =>
               result = Return([numerator |-> 1, denominator |-> 365])

\* The expiry is exactly one day after now, and 1/365 is returned.
C2_Witness ==
    /\ result # None
    /\ Supported(option)
    /\ TimeLeft = TicksPerDay
    /\ result.kind = "return"
    /\ result.value.numerator = 1

---------------------------------------------------------------------------
(* The pricing request.                                                    *)

Matches(q, opt) ==
    /\ q.product_name = opt.underlying_future
    /\ q.delivery_month = opt.delivery_month

NoMatchingQuote == \A q \in BagToSet(marketData) : ~Matches(q, option)

\* C3: pricing an option with no matching quote fails with the 'no market
\* data' error, whatever the later steps would have found: also for a future
\* with no expiry rule and for an option already expired.
C3_NoMarketDataFirst ==
    [][(pc = "try" /\ pc' # "try" /\ NoMatchingQuote) =>
           (pc' = "error" /\ exc' = Raise(ValueError, NoMarketDataMsg))]_vars

\* 'No market data' was raised for an option whose time to expiration fails.
C3_Witness ==
    /\ pc = "error"
    /\ exc.msg = NoMarketDataMsg
    /\ time_to_expiration(option, now).kind = "raise"

Priced == pc \in {"price", "time", "rendered"}

\* C4: no price is returned for a forward price, a strike or a time to
\* expiration that is not positive.
C4_NoPriceForInvalidInput ==
    Priced =>
        /\ option_price.F > 0
        /\ option_price.K > 0
        /\ option_price.T.numerator > 0
        /\ option_price.sigma > 0

\* The failure kind a message shown to the requester stands for.
KindShown(m) == IF m = TimeToExpiryFlash THEN TimeToExpirationMsg ELSE ""

\* C5: a failure reaches the requester with its own kind.
C5_FailureKeepsItsKind ==
    pc = "error" => KindShown(message) = exc.msg

\* C6: the forward price used is that of a quote of the option's product and
\* delivery month whose settlement date is the latest among those quotes.
C6_LatestMatchingQuote ==
    [][((pc = "try" /\ pc' = "price") \/ (pc = "price" /\ pc' = "time")) =>
           \E q \in BagToSet(marketData) :
               /\ Matches(q, option)
               /\ q.futures_price = option_price'.F
               /\ \A p \in BagToSet(marketData) :
                      Matches(p, option) => p.settlement_date <= q.settlement_date]_vars

\* A price computed while the store holds an older matching quote of another
\* price.
C6_Witness ==
    /\ pc = "time"
    /\ \E q, p \in BagToSet(marketData) :
           /\ Matches(q, option)
           /\ Matches(p, option)
           /\ p.settlement_date < q.settlement_date
           /\ p.futures_price # q.futures_price
           /\ option_price.F = q.futures_price

\* C10: the price shown was computed from exactly the time to expiration
\* shown with it, under every interleaving of the request with the clock and
\* with the ingestion of quotes.  Stated for a positive forward price and
\* strike, the inputs the pricer is meant for.
C10_PriceAndTimeBelongTogether ==
    (pc = "rendered" /\ option_price.F > 0 /\ option_price.K > 0) =>
        option_price.T = time_to_expiration_shown

===========================================================================
